---- MODULE Spec2Model ----
(***************************************************************************)
(* A model of cf, the command-line client for Cloudflare DNS records       *)
(* (src/cf.go).  The state is the process-wide session (activeAPI,         *)
(* activeZoneIdentifier, interactive), the process environment, the remote *)
(* provider's record store, and a log of what the last command line did:   *)
(* the remote calls it issued, the messages it printed, the environment    *)
(* variables it read and the prompts it showed.  One action models one     *)
(* whole pass through processCmd: the handler and every call it makes.     *)
(*                                                                         *)
(* Intermediate results are bound with \E x \in {e} (or One({.. : x \in    *)
(* {e}}) inside a value) so that each call is evaluated once.              *)
(***************************************************************************)
EXTENDS Integers, Sequences, FiniteSets, TLC

VARIABLES
    interactive,            \* cf.go:24, set once in main
    env,                    \* the process environment (three variables)
    activeAPI,              \* cf.go:25
    activeZoneIdentifier,   \* cf.go:26
    remote,                 \* the provider's DNS records, in listing order
    pc,                     \* "ready": about to read a line; "exit": process over
    cmd,                    \* the last line processed: handler and arguments
    calls,                  \* remote calls issued by the last line, in order
    out,                    \* messages printed by the last line, in order
    asked,                  \* prompts shown by the last line, in order
    reads,                  \* environment variables read by the last line
    repeat,                 \* history: "first" when the last line was a
                            \* convenience command on a type and name the
                            \* provider held no record of; "second" when it
                            \* repeated such a line at once; else "other"
    zoneSet,                \* history: the identifier the provider gave for
                            \* the last successful zone command, or NIL
    line,                   \* the tokens of the line given to Lookup
    argv,                   \* os.Args[1:] of a non-interactive run
    parsed,                 \* what Lookup's tokenizer made of fixupArgs(argv)
    desc,                   \* a command's long description
    wrapped                 \* indentWrap of desc, as help prints it

vars == <<interactive, env, activeAPI, activeZoneIdentifier, remote, pc,
          cmd, calls, out, asked, reads, repeat, zoneSet,
          line, argv, parsed, desc, wrapped>>

---------------------------------------------------------------------------
(* Bounds and input universes *)

\* The provider refuses to create a record once it holds this many: MaxRecs
\* in the record-level specification, MaxSessionRecs in the session-level one.
MaxRecs == 2
MaxSessionRecs == 1

NIL == "nil"

\* Zone names known to the provider, with the identifier of each.
ZoneIDs == [z1 |-> "Z1", z2 |-> "Z2"]

EnvSet == [email : {"", "env-email"}, key : {"", "env-key"}, zone : {"", "z1"}]
\* The environments tried for an interactive session: nothing set, only
\* the email set, everything set.
SessionEnvs ==
    {[email |-> "", key |-> "", zone |-> ""],
     [email |-> "env-email", key |-> "", zone |-> ""],
     [email |-> "env-email", key |-> "env-key", zone |-> "z1"]}

\* What the user types at a prompt (an empty line, or a failed read, is "").
EmailTyped == {"", "typed-email"}
KeyTyped == {"", "typed-key"}
ZoneTyped == {"", "z2", "zbad"}

\* A record as the provider stores it.
Rec(id, zone, rtype, name, content, ttl) ==
    [id |-> id, zone |-> zone, rtype |-> rtype, name |-> name,
     content |-> content, ttl |-> ttl]

\* A logged remote call.  n is the number of records a listing returned;
\* proxied is the Proxied parameter (never set by the code: off).
Call(op, zone, id, rtype, name, content, ttl, ok, n) ==
    [op |-> op, zone |-> zone, id |-> id, rtype |-> rtype, name |-> name,
     content |-> content, ttl |-> ttl, proxied |-> FALSE, ok |-> ok, n |-> n]

One(S) == CHOOSE x \in S : TRUE

---------------------------------------------------------------------------
(* The working state of one command line: the session, the provider, and   *)
(* the log.                                                                *)

Begin ==
    [api |-> activeAPI, zone |-> activeZoneIdentifier, remote |-> remote,
     calls |-> <<>>, out |-> <<>>, asked |-> <<>>, reads |-> {}]

Say(s, m) == [s EXCEPT !.out = Append(@, m)]
Getenv(s, v) == [s EXCEPT !.reads = @ \cup {v}]
Ask(s, p) == [s EXCEPT !.asked = Append(@, p)]
Log(s, c) == [s EXCEPT !.calls = Append(@, c)]

---------------------------------------------------------------------------
(* The provider (github.com/cloudflare/cloudflare-go), as the code uses it. *)
(* Every remote call either succeeds or returns an error (ok = FALSE).     *)

\* cloudflare.New: fails on an empty key or email, else returns a handle.
New(key, email) ==
    IF key = "" \/ email = "" THEN NIL ELSE "api(" \o key \o "," \o email \o ")"

\* api.ZoneIDByName: one remote lookup of the zone's identifier.
ZoneIDByName(s, zoneName, ok) ==
    LET good == ok /\ zoneName \in DOMAIN ZoneIDs
        id == IF good THEN ZoneIDs[zoneName] ELSE ""
    IN [s |-> Log(s, Call("ZoneIDByName", id, 0, "", zoneName, "", 0, good, 0)),
        id |-> id, err |-> ~good]

Matches(r, zone, rtype, name) ==
    /\ r.zone = zone
    /\ rtype = "" \/ r.rtype = rtype
    /\ name = "" \/ r.name = name

\* api.ListDNSRecords with a type and a name filter ("" filters nothing).
ListDNSRecords(s, zone, rtype, name, ok) ==
    LET recs == IF ok
                THEN SelectSeq(s.remote, LAMBDA r : Matches(r, zone, rtype, name))
                ELSE <<>>
    IN [s |-> Log(s, Call("ListDNSRecords", zone, 0, rtype, name, "", 0, ok, Len(recs))),
        recs |-> recs, err |-> ~ok]

FreshID(rs) ==
    CHOOSE i \in 1..(Len(rs) + 1) :
        /\ \A k \in DOMAIN rs : rs[k].id # i
        /\ \A j \in 1..(i - 1) : \E k \in DOMAIN rs : rs[k].id = j

\* api.CreateDNSRecord: on success the provider stores a new record under a
\* fresh identifier.
CreateDNSRecord(s, zone, rtype, name, content, ttl, ok) ==
    LET s1 == Log(s, Call("CreateDNSRecord", zone, 0, rtype, name, content, ttl, ok, 0))
    IN [s |-> IF ok
              THEN [s1 EXCEPT !.remote =
                        Append(@, Rec(FreshID(s.remote), zone, rtype, name, content, ttl))]
              ELSE s1,
        err |-> ~ok]

Stored(s, zone, id) ==
    \E k \in DOMAIN s.remote : s.remote[k].id = id /\ s.remote[k].zone = zone

\* api.UpdateDNSRecord: on success the record with that identifier takes the
\* given type, name, content and TTL.
UpdateDNSRecord(s, zone, id, rtype, name, content, ttl, ok) ==
    LET good == ok /\ Stored(s, zone, id)
        s1 == Log(s, Call("UpdateDNSRecord", zone, id, rtype, name, content, ttl, good, 0))
    IN [s |-> IF good
              THEN [s1 EXCEPT !.remote =
                        [k \in DOMAIN @ |->
                            IF @[k].id = id
                            THEN Rec(id, zone, rtype, name, content, ttl)
                            ELSE @[k]]]
              ELSE s1,
        err |-> ~good]

\* api.DeleteDNSRecord: on success the record with that identifier is gone.
DeleteDNSRecord(s, zone, id, ok) ==
    LET good == ok /\ Stored(s, zone, id)
        s1 == Log(s, Call("DeleteDNSRecord", zone, id, "", "", "", 0, good, 0))
    IN [s |-> IF good
              THEN [s1 EXCEPT !.remote = SelectSeq(@, LAMBDA r : r.id # id)]
              ELSE s1,
        err |-> ~good]

---------------------------------------------------------------------------
(* Session state: getAPI and getZoneIdentifier.  o is what the outside     *)
(* world answers during this command line: what is typed at each prompt    *)
(* and whether each remote call succeeds.  Each returns the working state  *)
(* it leaves (s) and its result (r).                                       *)

\* Variant of getAPI that prompts whether or not the run is interactive.
getAPIPrompting(s, o) ==
    IF s.api # NIL THEN [s |-> s, r |-> s.api]
    ELSE
    LET s2 == IF env.email = ""
              THEN Ask(Getenv(s, "CLOUDFLARE_EMAIL"), "Enter cloudflare account email: ")
              ELSE Getenv(s, "CLOUDFLARE_EMAIL")
        email == IF env.email = "" THEN o.email ELSE env.email
        s4 == IF env.key = ""
              THEN Ask(Getenv(s2, "CLOUDFLARE_KEY"), "Enter cloudflare API key: ")
              ELSE Getenv(s2, "CLOUDFLARE_KEY")
        key == IF env.key = "" THEN o.key ELSE env.key
    IN One({IF h = NIL
            THEN [s |-> Say([s4 EXCEPT !.api = h], "Error"), r |-> NIL]
            ELSE [s |-> [s4 EXCEPT !.api = h], r |-> h]
            : h \in {New(key, email)}})

\* Variant of getAPI that builds a handle on every call, the cached one
\* ignored.
getAPIFresh(s, o) ==
    IF env.email = "" /\ ~interactive
    THEN [s |-> Say(Getenv(s, "CLOUDFLARE_EMAIL"), "CLOUDFLARE_EMAIL not set."),
          r |-> NIL]
    ELSE
    LET s2 == IF env.email = ""
              THEN Ask(Getenv(s, "CLOUDFLARE_EMAIL"), "Enter cloudflare account email: ")
              ELSE Getenv(s, "CLOUDFLARE_EMAIL")
        email == IF env.email = "" THEN o.email ELSE env.email
    IN
    IF env.key = "" /\ ~interactive
    THEN [s |-> Say(Getenv(s2, "CLOUDFLARE_KEY"), "CLOUDFLARE_KEY not set."),
          r |-> NIL]
    ELSE
    LET s4 == IF env.key = ""
              THEN Ask(Getenv(s2, "CLOUDFLARE_KEY"), "Enter cloudflare API key: ")
              ELSE Getenv(s2, "CLOUDFLARE_KEY")
        key == IF env.key = "" THEN o.key ELSE env.key
    IN One({IF h = NIL
            THEN [s |-> Say([s4 EXCEPT !.api = h], "Error"), r |-> NIL]
            ELSE [s |-> [s4 EXCEPT !.api = h], r |-> h]
            : h \in {New(key, email)}})

getAPI(s, o) ==
    IF s.api # NIL THEN [s |-> s, r |-> s.api]
    ELSE IF env.email = "" /\ ~interactive
    THEN [s |-> Say(Getenv(s, "CLOUDFLARE_EMAIL"), "CLOUDFLARE_EMAIL not set."),
          r |-> NIL]
    ELSE
    LET s2 == IF env.email = ""
              THEN Ask(Getenv(s, "CLOUDFLARE_EMAIL"), "Enter cloudflare account email: ")
              ELSE Getenv(s, "CLOUDFLARE_EMAIL")
        email == IF env.email = "" THEN o.email ELSE env.email
    IN
    IF env.key = "" /\ ~interactive
    THEN [s |-> Say(Getenv(s2, "CLOUDFLARE_KEY"), "CLOUDFLARE_KEY not set."),
          r |-> NIL]
    ELSE
    LET s4 == IF env.key = ""
              THEN Ask(Getenv(s2, "CLOUDFLARE_KEY"), "Enter cloudflare API key: ")
              ELSE Getenv(s2, "CLOUDFLARE_KEY")
        key == IF env.key = "" THEN o.key ELSE env.key
    IN One({IF h = NIL
            THEN [s |-> Say([s4 EXCEPT !.api = h], "Error"), r |-> NIL]
            ELSE [s |-> [s4 EXCEPT !.api = h], r |-> h]
            : h \in {New(key, email)}})

\* Variant of getZoneIdentifier that resolves the zone on every call, the
\* cached identifier ignored.
getZoneIdentifierFresh(s, o) ==
    One({
        IF a.r = NIL THEN [s |-> a.s, r |-> NIL]
        ELSE
        LET ask == env.zone = "" /\ interactive
            s2 == IF ask
                  THEN Ask(Getenv(a.s, "CLOUDFLARE_ZONE"), "Enter zone name: ")
                  ELSE Getenv(a.s, "CLOUDFLARE_ZONE")
            zoneName == IF ask THEN o.zname ELSE env.zone
        IN
        IF zoneName = "" THEN [s |-> Say(s2, "CLOUDFLARE_ZONE not set."), r |-> NIL]
        ELSE One({IF z.err THEN [s |-> Say(z.s, "Error"), r |-> NIL]
                  ELSE [s |-> [z.s EXCEPT !.zone = z.id], r |-> z.id]
                  : z \in {ZoneIDByName(s2, zoneName, o.zoneOK)}})
        : a \in {getAPI(s, o)}})

getZoneIdentifier(s, o) ==
    IF s.zone # NIL THEN [s |-> s, r |-> s.zone]
    ELSE One({
        IF a.r = NIL THEN [s |-> a.s, r |-> NIL]
        ELSE
        LET ask == env.zone = "" /\ interactive
            s2 == IF ask
                  THEN Ask(Getenv(a.s, "CLOUDFLARE_ZONE"), "Enter zone name: ")
                  ELSE Getenv(a.s, "CLOUDFLARE_ZONE")
            zoneName == IF ask THEN o.zname ELSE env.zone
        IN
        IF zoneName = "" THEN [s |-> Say(s2, "CLOUDFLARE_ZONE not set."), r |-> NIL]
        ELSE One({IF z.err THEN [s |-> Say(z.s, "Error"), r |-> NIL]
                  ELSE [s |-> [z.s EXCEPT !.zone = z.id], r |-> z.id]
                  : z \in {ZoneIDByName(s2, zoneName, o.zoneOK)}})
        : a \in {getAPI(s, o)}})

---------------------------------------------------------------------------
(* One line has been processed.                                            *)

Made(s, op) == Len(SelectSeq(s.calls, LAMBDA c : c.op = op))
Prompted(s, p) == \E i \in DOMAIN s.asked : s.asked[i] = p

\* The world answers only what it is asked: an answer the command line
\* never consumed (a prompt not shown, a call not made) is not varied.
Asked(o, s) ==
    /\ Prompted(s, "Enter cloudflare account email: ") \/ o.email = ""
    /\ Prompted(s, "Enter cloudflare API key: ") \/ o.key = ""
    /\ Prompted(s, "Enter zone name: ") \/ o.zname = ""
    /\ Made(s, "ZoneIDByName") > 0 \/ o.zoneOK
    /\ Made(s, "ListDNSRecords") > 0 \/ o.listOK
    /\ Made(s, "CreateDNSRecord") > 0 \/ o.createOK = o.room
    /\ Made(s, "UpdateDNSRecord") > 0 \/ o.updateOK
    /\ \A i \in DOMAIN o.delOK : i <= Made(s, "DeleteDNSRecord") \/ o.delOK[i]

\* The record type each convenience command manages.
ConvType == [ip4 |-> "A", ip6 |-> "AAAA", cname |-> "CNAME", txt |-> "TXT"]

Holds(rs, rtype, name) == \E k \in DOMAIN rs : rs[k].rtype = rtype /\ rs[k].name = name

Repeat(c, args) ==
    IF c \in DOMAIN ConvType /\ Len(args) = 2
    THEN IF repeat = "first" /\ cmd = [name |-> c, args |-> args] THEN "second"
         ELSE IF ~Holds(remote, ConvType[c], args[1]) THEN "first"
         ELSE "other"
    ELSE "other"

ZoneSet(c, s) ==
    IF c = "zone" /\ s.calls # <<>> /\ s.calls[Len(s.calls)].ok
    THEN s.calls[Len(s.calls)].zone
    ELSE zoneSet

\* Handler c, called with args, leaves working state s and returns err (an
\* error or nil).  The loop of runInteractive goes on unless the handler
\* returned an error; main returns after the one line of a non-interactive
\* run.
Return(c, args, o, s, err) ==
    /\ Asked(o, s)
    /\ cmd' = [name |-> c, args |-> args]
    /\ activeAPI' = s.api
    /\ activeZoneIdentifier' = s.zone
    /\ remote' = s.remote
    /\ calls' = s.calls
    /\ out' = s.out
    /\ asked' = s.asked
    /\ reads' = s.reads
    /\ repeat' = Repeat(c, args)
    /\ zoneSet' = ZoneSet(c, s)
    /\ pc' = IF err \/ ~interactive THEN "exit" ELSE "ready"
    /\ UNCHANGED <<interactive, env, argv, parsed, desc, wrapped>>

---------------------------------------------------------------------------
(* The command handlers, each on the working state Begin.                  *)

Usage ==
    [help |-> "help [<command>]", list |-> "list [<type>]",
     ip4 |-> "ip4 <name> <address>", ip6 |-> "ip6 <name> <address>",
     cname |-> "cname <name> <address>", txt |-> "txt <name> <address>",
     add |-> "add <type> <name> \"<content>\"", delete |-> "delete <type> <name>",
     zone |-> "zone <name>", quit |-> "quit"]

DisplayUsage(s, c) == Say(s, "Usage: " \o Usage[c])

cmdQuit(c, args, o) == Return(c, args, o, Begin, TRUE)

\* cmdHelp prints the command list or one command's help; it touches
\* neither the session nor the provider.
cmdHelp(c, args, o) == Return(c, args, o, Say(Begin, "help"), FALSE)

\* Variant of cmdSetZone that assigns the session's zone straight from the
\* lookup, failed or not.
cmdSetZoneClobber(c, args, o) ==
    IF Len(args) < 1 THEN Return(c, args, o, DisplayUsage(Begin, c), FALSE)
    ELSE
    \E a \in {getAPI(Begin, o)} :
    IF a.r = NIL THEN Return(c, args, o, a.s, FALSE)
    ELSE
    \E z \in {ZoneIDByName(a.s, args[1], o.zoneOK)} :
    IF z.err THEN Return(c, args, o, Say([z.s EXCEPT !.zone = z.id], "Error"), FALSE)
    ELSE Return(c, args, o,
                Say([z.s EXCEPT !.zone = z.id], "Active zone set to " \o args[1] \o "."),
                FALSE)

cmdSetZone(c, args, o) ==
    IF Len(args) < 1 THEN Return(c, args, o, DisplayUsage(Begin, c), FALSE)
    ELSE
    \E a \in {getAPI(Begin, o)} :
    IF a.r = NIL THEN Return(c, args, o, a.s, FALSE)
    ELSE
    \E z \in {ZoneIDByName(a.s, args[1], o.zoneOK)} :
    IF z.err THEN Return(c, args, o, Say(z.s, "Error"), FALSE)
    ELSE Return(c, args, o,
                Say([z.s EXCEPT !.zone = z.id], "Active zone set to " \o args[1] \o "."),
                FALSE)

\* strings.ToUpper on the type names the inputs use.
ToUpper(t) ==
    CASE t = "a" -> "A"
      [] t = "txt" -> "TXT"
      [] OTHER -> t

Max(a, b) == IF a > b THEN a ELSE b

RECURSIVE Spaces(_)
Spaces(n) == IF n <= 0 THEN "" ELSE " " \o Spaces(n - 1)

\* fmt's %-*s: the string, padded on the right to the width.
PadRight(w, str) == str \o Spaces(w - Len(str))

RECURSIVE MaxWidth(_, _)
MaxWidth(recs, field) ==
    IF recs = <<>> THEN 0
    ELSE Max(Len(Head(recs)[field]), MaxWidth(Tail(recs), field))

RECURSIVE PrintRows(_, _, _, _)
PrintRows(s, recs, widthType, widthName) ==
    IF recs = <<>> THEN s
    ELSE PrintRows(Say(s, PadRight(widthType, Head(recs).rtype) \o " "
                          \o PadRight(widthName, Head(recs).name) \o " "
                          \o Head(recs).content),
                   Tail(recs), widthType, widthName)

cmdListDomains(c, args, o) ==
    \E z \in {getZoneIdentifier(Begin, o)} :
    IF z.r = NIL THEN Return(c, args, o, z.s, FALSE)
    ELSE
    \E a \in {getAPI(z.s, o)} :
    IF a.r = NIL THEN Return(c, args, o, a.s, FALSE)
    ELSE
    \E l \in {ListDNSRecords(a.s, z.r, IF Len(args) > 0 THEN ToUpper(args[1]) ELSE "",
                             "", o.listOK)} :
    IF l.err THEN Return(c, args, o, Say(l.s, "Error"), FALSE)
    ELSE \E wt \in {MaxWidth(l.recs, "rtype")} : \E wn \in {MaxWidth(l.recs, "name")} :
         Return(c, args, o, PrintRows(l.s, l.recs, wt, wn), FALSE)

\* Variant of Upsert that updates the first match whatever its content.
UpsertAlways(l, zid, recType, name, content, o) ==
    IF ~l.err /\ Len(l.recs) > 0
    THEN UpdateDNSRecord(l.s, zid, l.recs[1].id, l.recs[1].rtype, name, content,
                         l.recs[1].ttl, o.updateOK)
    ELSE CreateDNSRecord(l.s, zid, recType, name, content, 1, o.createOK)

\* Variant of Upsert that looks at the last match instead of the first.
UpsertLast(l, zid, recType, name, content, o) ==
    IF ~l.err /\ Len(l.recs) > 0
    THEN IF l.recs[Len(l.recs)].content # content
         THEN UpdateDNSRecord(l.s, zid, l.recs[Len(l.recs)].id, l.recs[Len(l.recs)].rtype,
                              name, content, l.recs[Len(l.recs)].ttl, o.updateOK)
         ELSE [s |-> l.s, err |-> l.err]
    ELSE CreateDNSRecord(l.s, zid, recType, name, content, 1, o.createOK)

\* addOrUpdateRecord after its listing l under zone identifier zid: the
\* update of the first match, or the create.  Returns the working state and
\* the last error.
Upsert(l, zid, recType, name, content, o) ==
    IF ~l.err /\ Len(l.recs) > 0
    THEN IF l.recs[1].content # content
         THEN UpdateDNSRecord(l.s, zid, l.recs[1].id, l.recs[1].rtype, name, content,
                              l.recs[1].ttl, o.updateOK)
         ELSE [s |-> l.s, err |-> l.err]
    ELSE CreateDNSRecord(l.s, zid, recType, name, content, 1, o.createOK)

addOrUpdateRecord(c, args, recType, name, content, o) ==
    \E a \in {getAPI(Begin, o)} :
    IF a.r = NIL THEN Return(c, args, o, a.s, FALSE)
    ELSE
    \E z \in {getZoneIdentifier(a.s, o)} :
    IF z.r = NIL THEN Return(c, args, o, z.s, FALSE)
    ELSE
    \E l \in {ListDNSRecords(z.s, z.r, recType, name, o.listOK)} :
    \E m \in {Upsert(l, z.r, recType, name, content, o)} :
    IF m.err THEN Return(c, args, o, Say(m.s, "Error"), FALSE)
    ELSE Return(c, args, o, Say(m.s, "DNS record updated."), FALSE)

cmdIP4(c, args, o) ==
    IF Len(args) # 2 THEN Return(c, args, o, DisplayUsage(Begin, c), FALSE)
    ELSE addOrUpdateRecord(c, args, "A", args[1], args[2], o)

cmdIP6(c, args, o) ==
    IF Len(args) # 2 THEN Return(c, args, o, DisplayUsage(Begin, c), FALSE)
    ELSE addOrUpdateRecord(c, args, "AAAA", args[1], args[2], o)

cmdCNAME(c, args, o) ==
    IF Len(args) # 2 THEN Return(c, args, o, DisplayUsage(Begin, c), FALSE)
    ELSE addOrUpdateRecord(c, args, "CNAME", args[1], args[2], o)

cmdTXT(c, args, o) ==
    IF Len(args) # 2 THEN Return(c, args, o, DisplayUsage(Begin, c), FALSE)
    ELSE addOrUpdateRecord(c, args, "TXT", args[1], args[2], o)

\* Variant of cmdAdd that does not look at what getZoneIdentifier returned.
cmdAddNoZoneCheck(c, args, o) ==
    IF Len(args) # 3 THEN Return(c, args, o, DisplayUsage(Begin, c), FALSE)
    ELSE
    \E a \in {getAPI(Begin, o)} :
    IF a.r = NIL THEN Return(c, args, o, a.s, FALSE)
    ELSE
    \E z \in {getZoneIdentifier(a.s, o)} :
    \E r \in {CreateDNSRecord(z.s, z.r, args[1], args[2], args[3], 1, o.createOK)} :
    IF r.err THEN Return(c, args, o, Say(r.s, "Error"), FALSE)
    ELSE Return(c, args, o, Say(r.s, "DNS record added."), FALSE)

\* Variant of cmdAdd that goes through addOrUpdateRecord.
cmdAddUpsert(c, args, o) ==
    IF Len(args) # 3 THEN Return(c, args, o, DisplayUsage(Begin, c), FALSE)
    ELSE addOrUpdateRecord(c, args, args[1], args[2], args[3], o)

cmdAdd(c, args, o) ==
    IF Len(args) # 3 THEN Return(c, args, o, DisplayUsage(Begin, c), FALSE)
    ELSE
    \E a \in {getAPI(Begin, o)} :
    IF a.r = NIL THEN Return(c, args, o, a.s, FALSE)
    ELSE
    \E z \in {getZoneIdentifier(a.s, o)} :
    IF z.r = NIL THEN Return(c, args, o, z.s, FALSE)
    ELSE
    \E r \in {CreateDNSRecord(z.s, z.r, args[1], args[2], args[3], 1, o.createOK)} :
    IF r.err THEN Return(c, args, o, Say(r.s, "Error"), FALSE)
    ELSE Return(c, args, o, Say(r.s, "DNS record added."), FALSE)

\* Variant of DeleteEach that tries a failed delete a second time.
RECURSIVE DeleteRetry(_, _, _, _, _)
DeleteRetry(s, zone, recs, i, delOK) ==
    IF i > Len(recs) THEN s
    ELSE One({
        IF d.err
        THEN One({
            IF e.err
            THEN DeleteRetry(Say(e.s, "Error deleting " \o recs[i].name),
                             zone, recs, i + 1, delOK)
            ELSE DeleteRetry(Say(e.s, "Deleted " \o recs[i].rtype \o " record "
                                      \o recs[i].name \o "."),
                             zone, recs, i + 1, delOK)
            : e \in {DeleteDNSRecord(d.s, zone, recs[i].id, delOK[i])}})
        ELSE DeleteRetry(Say(d.s, "Deleted " \o recs[i].rtype \o " record "
                                  \o recs[i].name \o "."),
                         zone, recs, i + 1, delOK)
        : d \in {DeleteDNSRecord(s, zone, recs[i].id, delOK[i])}})

\* Variant of DeleteEach that leaves the loop at the first failed delete.
RECURSIVE DeleteUntilError(_, _, _, _, _)
DeleteUntilError(s, zone, recs, i, delOK) ==
    IF i > Len(recs) THEN s
    ELSE One({
        IF d.err
        THEN Say(d.s, "Error deleting " \o recs[i].name)
        ELSE DeleteUntilError(Say(d.s, "Deleted " \o recs[i].rtype \o " record "
                                       \o recs[i].name \o "."),
                              zone, recs, i + 1, delOK)
        : d \in {DeleteDNSRecord(s, zone, recs[i].id, delOK[i])}})

\* The loop of cmdDelete over the listed records, from the i-th on.
RECURSIVE DeleteEach(_, _, _, _, _)
DeleteEach(s, zone, recs, i, delOK) ==
    IF i > Len(recs) THEN s
    ELSE One({
        IF d.err
        THEN DeleteEach(Say(d.s, "Error deleting " \o recs[i].name),
                        zone, recs, i + 1, delOK)
        ELSE DeleteEach(Say(d.s, "Deleted " \o recs[i].rtype \o " record "
                                 \o recs[i].name \o "."),
                        zone, recs, i + 1, delOK)
        : d \in {DeleteDNSRecord(s, zone, recs[i].id, delOK[i])}})

cmdDelete(c, args, o) ==
    IF Len(args) # 2 THEN Return(c, args, o, DisplayUsage(Begin, c), FALSE)
    ELSE
    \E a \in {getAPI(Begin, o)} :
    IF a.r = NIL THEN Return(c, args, o, a.s, FALSE)
    ELSE
    \E z \in {getZoneIdentifier(a.s, o)} :
    IF z.r = NIL THEN Return(c, args, o, z.s, FALSE)
    ELSE
    IF Len(args[1]) < 1
    THEN Return(c, args, o, Say(z.s, "Must provide valid DNS record type."), FALSE)
    ELSE
    \E l \in {ListDNSRecords(z.s, z.r, args[1], args[2], o.listOK)} :
    IF l.err THEN Return(c, args, o, Say(l.s, "Error"), FALSE)
    ELSE IF Len(l.recs) < 1
    THEN Return(c, args, o, Say(l.s, "No matching record(s) found."), FALSE)
    ELSE Return(c, args, o, DeleteEach(l.s, z.r, l.recs, 1, o.delOK), FALSE)

---------------------------------------------------------------------------
(* Inputs.  U is the universe of argument lists a specification tries for  *)
(* each command, with the bound on the provider's records.  The outside    *)
(* world answers each prompt and each remote call.                         *)

\* The session-level universe: every command with too few, exact and too
\* many arguments, one record content.
SessionInputs ==
    [zone |-> {<<>>, <<"z1">>, <<"z2">>, <<"zbad">>, <<"z1", "extra">>},
     list |-> {<<>>, <<"a">>, <<"A", "extra">>},
     conv |-> {<<>>, <<"h1">>, <<"h1", "c1">>, <<"h1", "c1", "extra">>},
     conv1 |-> {<<>>, <<"h1", "c1">>, <<"h1", "c1", "extra">>},
     add |-> {<<>>, <<"A", "h1">>, <<"A", "h1", "c1">>, <<"A", "h1", "c1", "extra">>},
     delete |-> {<<>>, <<"A">>, <<"A", "h1">>, <<"", "h1">>, <<"A", "h1", "extra">>},
     other |-> {<<>>, <<"list">>},
     cap |-> MaxSessionRecs]

\* The record-level universe: well-formed record commands on one name, over
\* two contents.
RecordInputs ==
    [conv |-> {<<"h1", "c1">>, <<"h1", "c2">>},
     conv1 |-> {<<"h1", "c1">>},
     add |-> {<<"A", "h1", "c1">>, <<"TXT", "h1", "c2">>},
     delete |-> {<<"A", "h1">>, <<"TXT", "h1">>},
     cap |-> MaxRecs]

\* A prompt is shown only when the value is neither cached nor in the
\* environment; otherwise nothing is typed.
EmailIn == IF interactive /\ activeAPI = NIL /\ env.email = "" THEN EmailTyped ELSE {""}
KeyIn == IF interactive /\ activeAPI = NIL /\ env.key = "" THEN KeyTyped ELSE {""}
ZoneIn ==
    IF interactive /\ activeZoneIdentifier = NIL /\ env.zone = "" THEN ZoneTyped ELSE {""}
\* The provider has room for one more record.
Room(U) == Len(remote) < U.cap

\* The answers a command line may get: what is typed at each prompt it can
\* show, and the outcome of each kind of remote call it can make.
World(U, lists, creates, updates, deletes) ==
    [email : EmailIn, key : KeyIn, zname : ZoneIn, zoneOK : BOOLEAN,
     listOK : IF lists THEN BOOLEAN ELSE {TRUE},
     room : {Room(U)},
     createOK : IF creates /\ Room(U) THEN BOOLEAN ELSE {Room(U)},
     updateOK : IF updates THEN BOOLEAN ELSE {TRUE},
     delOK : IF deletes THEN [1..Len(remote) -> BOOLEAN]
                        ELSE {[i \in 1..Len(remote) |-> TRUE]}]

---------------------------------------------------------------------------
(* The program: main, runInteractive and processCmd.                       *)

Quiet ==
    [email |-> "", key |-> "", zname |-> "", zoneOK |-> TRUE, listOK |-> TRUE,
     room |-> TRUE, createOK |-> TRUE, updateOK |-> TRUE, delOK |-> <<>>]

\* readString("cf> ") fails: the input stream is closed.
ReadFail ==
    /\ pc = "ready"
    /\ interactive
    /\ Return("<eof>", <<>>, Quiet, Begin, TRUE)
    /\ UNCHANGED line

\* line = "", or Lookup selects nothing.
EmptyLine ==
    /\ pc = "ready"
    /\ Return("<empty>", <<>>, Quiet, Begin, FALSE)
    /\ UNCHANGED line

NotFound ==
    /\ pc = "ready"
    /\ Return("<notfound>", <<>>, Quiet, Say(Begin, "Command not found."), FALSE)
    /\ UNCHANGED line

Ambiguous ==
    /\ pc = "ready"
    /\ Return("<ambiguous>", <<>>, Quiet, Say(Begin, "Command ambiguous."), FALSE)
    /\ UNCHANGED line

\* Variant of LookupError in which processCmd returns the error.
LookupErrorFatal ==
    /\ pc = "ready"
    /\ Return("<error>", <<>>, Quiet, Say(Begin, "Error"), TRUE)
    /\ UNCHANGED line

\* Any other error of Lookup (an unterminated quote).
LookupError ==
    /\ pc = "ready"
    /\ Return("<error>", <<>>, Quiet, Say(Begin, "Error"), FALSE)
    /\ UNCHANGED line

\* processCmd calls the handler Lookup found, with the arguments after it.
Help(U) ==
    /\ pc = "ready"
    /\ \E args \in U.other : cmdHelp("help", args, Quiet)
    /\ UNCHANGED line

Quit(U) ==
    /\ pc = "ready"
    /\ \E args \in U.other : cmdQuit("quit", args, Quiet)
    /\ UNCHANGED line

Zone(U) ==
    /\ pc = "ready"
    /\ \E args \in U.zone : \E o \in World(U, FALSE, FALSE, FALSE, FALSE) : cmdSetZone("zone", args, o)
    /\ UNCHANGED line

List(U) ==
    /\ pc = "ready"
    /\ \E args \in U.list : \E o \in World(U, TRUE, FALSE, FALSE, FALSE) : cmdListDomains("list", args, o)
    /\ UNCHANGED line

IP4(U) ==
    /\ pc = "ready"
    /\ \E args \in U.conv : \E o \in World(U, TRUE, TRUE, TRUE, FALSE) : cmdIP4("ip4", args, o)
    /\ UNCHANGED line

IP6(U) ==
    /\ pc = "ready"
    /\ \E args \in U.conv1 : \E o \in World(U, TRUE, TRUE, TRUE, FALSE) : cmdIP6("ip6", args, o)
    /\ UNCHANGED line

CNAME(U) ==
    /\ pc = "ready"
    /\ \E args \in U.conv1 : \E o \in World(U, TRUE, TRUE, TRUE, FALSE) : cmdCNAME("cname", args, o)
    /\ UNCHANGED line

TXT(U) ==
    /\ pc = "ready"
    /\ \E args \in U.conv : \E o \in World(U, TRUE, TRUE, TRUE, FALSE) : cmdTXT("txt", args, o)
    /\ UNCHANGED line

Add(U) ==
    /\ pc = "ready"
    /\ \E args \in U.add : \E o \in World(U, FALSE, TRUE, FALSE, FALSE) : cmdAdd("add", args, o)
    /\ UNCHANGED line

Delete(U) ==
    /\ pc = "ready"
    /\ \E args \in U.delete : \E o \in World(U, TRUE, FALSE, FALSE, TRUE) : cmdDelete("delete", args, o)
    /\ UNCHANGED line

Start ==
    /\ activeAPI = NIL
    /\ activeZoneIdentifier = NIL
    /\ pc = "ready"
    /\ cmd = [name |-> "", args |-> <<>>]
    /\ calls = <<>>
    /\ out = <<>>
    /\ asked = <<>>
    /\ reads = {}
    /\ repeat = "other"
    /\ zoneSet = NIL

\* No line tokenized yet.
NotParsed == [done |-> FALSE, err |-> FALSE, tokens |-> <<>>]

\* Nothing typed, no arguments, no help text.
NoText ==
    /\ line = <<>>
    /\ argv = <<>>
    /\ parsed = NotParsed
    /\ desc = ""
    /\ wrapped = NIL

\* The whole program: a non-interactive run under every environment, or an
\* interactive session.
Init ==
    /\ interactive \in BOOLEAN
    /\ env \in IF interactive THEN SessionEnvs ELSE EnvSet
    /\ remote = <<Rec(1, "Z1", "A", "h1", "c2", 300)>>
    /\ Start
    /\ NoText

Next ==
    \/ ReadFail
    \/ EmptyLine
    \/ NotFound
    \/ Ambiguous
    \/ LookupError
    \/ Help(SessionInputs)
    \/ Quit(SessionInputs)
    \/ Zone(SessionInputs)
    \/ List(SessionInputs)
    \/ IP4(SessionInputs)
    \/ IP6(SessionInputs)
    \/ CNAME(SessionInputs)
    \/ TXT(SessionInputs)
    \/ Add(SessionInputs)
    \/ Delete(SessionInputs)

Spec == Init /\ [][Next]_vars

\* An interactive session with the credentials and the zone in the
\* environment, over a provider that already holds records, duplicates
\* included.
InitRecords ==
    /\ interactive = TRUE
    /\ env = [email |-> "env-email", key |-> "env-key", zone |-> "z1"]
    /\ remote \in {<<>>,
                   <<Rec(1, "Z1", "A", "h1", "c1", 300)>>,
                   <<Rec(1, "Z1", "A", "h1", "c1", 300),
                     Rec(2, "Z1", "A", "h1", "c2", 300)>>}
    /\ Start
    /\ NoText

NextRecords ==
    \/ IP4(RecordInputs)
    \/ IP6(RecordInputs)
    \/ CNAME(RecordInputs)
    \/ TXT(RecordInputs)
    \/ Add(RecordInputs)
    \/ Delete(RecordInputs)

SpecRecords == InitRecords /\ [][NextRecords]_vars

---------------------------------------------------------------------------
(* Help rendering (src/unnamed/part_000): indentWrap, which cmdHelp applies *)
(* to a command's long description with an indent of 3.  Strings are TLA+  *)
(* strings; At(s, i) is the i-th character.                                *)

MaxWords == 3

At(s, i) == SubSeq(s, i, i)

\* unicode.IsSpace, on the characters the inputs use.
IsSpace(ch) == ch \in {" ", "\t", "\n"}

\* strings.Fields: the maximal runs of non-space characters, in order.
FieldStarts(s) ==
    {i \in 1..Len(s) : ~IsSpace(At(s, i)) /\ (i = 1 \/ IsSpace(At(s, i - 1)))}
FieldEnd(s, i) ==
    CHOOSE j \in i..Len(s) :
        /\ \A k \in i..j : ~IsSpace(At(s, k))
        /\ j = Len(s) \/ IsSpace(At(s, j + 1))
Fields(s) ==
    One({[k \in 1..Cardinality(st) |->
            One({SubSeq(s, i, FieldEnd(s, i)) :
                 i \in {i \in st : Cardinality({j \in st : j < i}) = k - 1}})]
         : st \in {FieldStarts(s)}})

\* strings.Repeat and strings.Join.
RECURSIVE RepeatStr(_, _)
RepeatStr(ch, n) == IF n <= 0 THEN "" ELSE ch \o RepeatStr(ch, n - 1)

RECURSIVE Join(_, _)
Join(ss, sep) ==
    IF ss = <<>> THEN ""
    ELSE IF Len(ss) = 1 THEN ss[1]
    ELSE ss[1] \o sep \o Join(Tail(ss), sep)

\* The first loop of indentWrap from word i on: the number of words on each
\* line.  count words are on the current line, which is l columns long.
RECURSIVE WrapCounts(_, _, _, _, _)
WrapCounts(ss, indent, i, count, l) ==
    IF i > Len(ss) THEN <<count>>
    ELSE IF l + 1 + Len(ss[i]) < 80
    THEN WrapCounts(ss, indent, i + 1, count + 1, l + 1 + Len(ss[i]))
    ELSE <<count>> \o WrapCounts(ss, indent, i + 1, 1, indent + Len(ss[i]))

\* Variant of WrapLines that indents the first line only.
RECURSIVE WrapLinesFirstIndent(_, _, _, _)
WrapLinesFirstIndent(ss, indent, counts, i) ==
    IF counts = <<>> THEN <<>>
    ELSE <<RepeatStr(" ", IF i = 1 THEN indent ELSE 0)
             \o Join(SubSeq(ss, i, i + counts[1] - 1), " ")>>
         \o WrapLinesFirstIndent(ss, indent, Tail(counts), i + counts[1])

\* The second loop of indentWrap: the lines, from word i on.
RECURSIVE WrapLines(_, _, _, _)
WrapLines(ss, indent, counts, i) ==
    IF counts = <<>> THEN <<>>
    ELSE <<RepeatStr(" ", indent) \o Join(SubSeq(ss, i, i + counts[1] - 1), " ")>>
         \o WrapLines(ss, indent, Tail(counts), i + counts[1])

indentWrap(indent, s) ==
    One({IF Len(ss) = 0 THEN ""
         ELSE One({Join(WrapLines(ss, indent, counts, 1), "\n")
                   : counts \in {WrapCounts(ss, indent, 2, 1, indent + Len(ss[1]))}})
         : ss \in {Fields(s)}})

\* The descriptions tried: 85 characters long, up to MaxWords words.  Every
\* word but the last has one of these lengths, every gap between words is
\* one or two spaces, there may be trailing spaces, and the last word fills
\* the rest.  A description of spaces only is tried too.
WordLens == {1, 6, 7, 8, 38, 68, 69, 70, 76}
GapLens == {1, 2}
TrailLens == {0, 9}
Letters == <<"a", "b", "c", "d", "e">>

RECURSIVE Sum(_, _)
Sum(f, n) == IF n = 0 THEN 0 ELSE f[n] + Sum(f, n - 1)

RECURSIVE Front(_, _, _)
Front(heads, gaps, n) ==
    IF n = 0 THEN ""
    ELSE Front(heads, gaps, n - 1) \o RepeatStr(Letters[n], heads[n]) \o RepeatStr(" ", gaps[n])

Descriptions ==
    {RepeatStr(" ", 85)} \cup
    UNION {
        {Front(heads, gaps, n - 1)
            \o RepeatStr(Letters[n], 85 - trail - Sum(heads, n - 1) - Sum(gaps, n - 1))
            \o RepeatStr(" ", trail)
         : <<heads, gaps, trail>> \in
             {x \in [1..(n - 1) -> WordLens] \X [1..(n - 1) -> GapLens] \X TrailLens :
                 Sum(x[1], n - 1) + Sum(x[2], n - 1) + x[3] < 85}}
        : n \in 1..MaxWords}

\* cmdHelp prints the description of the command it found, wrapped.
HelpDescription ==
    /\ wrapped = NIL
    /\ wrapped' = indentWrap(3, desc)
    /\ UNCHANGED <<interactive, env, activeAPI, activeZoneIdentifier, remote, pc,
                   cmd, calls, out, asked, reads, repeat, zoneSet,
                   line, argv, parsed, desc>>

InitWrap ==
    /\ interactive = TRUE
    /\ env = [email |-> "", key |-> "", zone |-> ""]
    /\ remote = <<>>
    /\ Start
    /\ line = <<>>
    /\ argv = <<>>
    /\ parsed = NotParsed
    /\ desc \in Descriptions
    /\ wrapped = NIL

NextWrap == HelpDescription

SpecWrap == InitWrap /\ [][NextWrap]_vars

---------------------------------------------------------------------------
(* A non-interactive run: main joins os.Args[1:] with fixupArgs and hands  *)
(* the line to processCmd, whose Lookup splits it into tokens again.       *)
(* Lookup belongs to github.com/beevik/cmd; its tokenizer follows the      *)
(* specification's section 4.2: double-quoted substrings are single        *)
(* tokens, an unterminated quote is malformed input, runs of separators    *)
(* collapse.                                                               *)

MaxArgs == 2
MaxArgLen == 2

\* strings.ContainsAny(a, chars).
ContainsAny(a, chars) == \E i \in 1..Len(a) : At(a, i) \in chars

fixupArgs(args) ==
    Join([k \in DOMAIN args |->
            IF ContainsAny(args[k], {" ", "\t"})
            THEN "\"" \o args[k] \o "\""
            ELSE args[k]],
         " ")

\* The tokenizer from character i on.  cur is the token being read (inTok),
\* inQuote says whether a double quote is open, acc holds the tokens read.
RECURSIVE Scan(_, _, _, _, _, _)
Scan(s, i, cur, inTok, inQuote, acc) ==
    IF i > Len(s)
    THEN IF inQuote THEN [done |-> TRUE, err |-> TRUE, tokens |-> <<>>]
         ELSE [done |-> TRUE, err |-> FALSE,
               tokens |-> IF inTok THEN Append(acc, cur) ELSE acc]
    ELSE One({
        IF inQuote
        THEN IF ch = "\"" THEN Scan(s, i + 1, cur, TRUE, FALSE, acc)
             ELSE Scan(s, i + 1, cur \o ch, TRUE, TRUE, acc)
        ELSE IF ch = "\"" THEN Scan(s, i + 1, cur, TRUE, TRUE, acc)
        ELSE IF IsSpace(ch)
        THEN Scan(s, i + 1, "", FALSE, FALSE, IF inTok THEN Append(acc, cur) ELSE acc)
        ELSE Scan(s, i + 1, cur \o ch, TRUE, FALSE, acc)
        : ch \in {At(s, i)}})

Tokenize(s) == Scan(s, 1, "", FALSE, FALSE, <<>>)

\* The arguments tried: up to MaxArgs of them, each up to MaxArgLen
\* characters, a letter, a space, a tab or a double quote.
ArgChars == {"a", " ", "\t", "\""}

RECURSIVE Strings(_)
Strings(n) ==
    IF n = 0 THEN {""}
    ELSE {""} \cup {ch \o s : ch \in ArgChars, s \in Strings(n - 1)}

ArgLists == UNION {[1..n -> Strings(MaxArgLen)] : n \in 1..MaxArgs}

\* main, non-interactive: processCmd(fixupArgs(args)), up to the tokens
\* Lookup reads.
MainArgs ==
    /\ ~parsed.done
    /\ parsed' = Tokenize(fixupArgs(argv))
    /\ UNCHANGED <<interactive, env, activeAPI, activeZoneIdentifier, remote, pc,
                   cmd, calls, out, asked, reads, repeat, zoneSet,
                   line, argv, desc, wrapped>>

InitArgs ==
    /\ interactive = FALSE
    /\ env = [email |-> "", key |-> "", zone |-> ""]
    /\ remote = <<>>
    /\ Start
    /\ line = <<>>
    /\ argv \in ArgLists
    /\ parsed = NotParsed
    /\ desc = ""
    /\ wrapped = NIL

NextArgs == MainArgs

SpecArgs == InitArgs /\ [][NextArgs]_vars

---------------------------------------------------------------------------
(* Command lookup.  The registry is the one init builds (src/cf.go).       *)
(* Lookup belongs to github.com/beevik/cmd; it follows the specification's *)
(* section 4.2: the first token selects the command of which it is an      *)
(* exact name or shortcut, or else the one name or shortcut of which it is *)
(* a non-empty prefix; the tokens after it are the arguments.              *)

\* The commands init adds, and the shortcuts.
Names == {"help", "list", "ip4", "ip6", "cname", "txt", "add", "delete", "zone", "quit"}

\* Variant of Shortcuts with ip given to ip6.
ShortcutsIP6 == ("?" :> "help") @@ ("l" :> "list") @@ ("ip" :> "ip6")

Shortcuts == ("?" :> "help") @@ ("l" :> "list") @@ ("ip" :> "ip4")

HasPrefix(k, t) == Len(t) <= Len(k) /\ SubSeq(k, 1, Len(t)) = t

Keys == Names \cup DOMAIN Shortcuts
Node(k) == IF k \in Names THEN k ELSE Shortcuts[k]

Lookup(tokens) ==
    IF tokens = <<>> THEN [node |-> NIL, args |-> <<>>, err |-> NIL]
    ELSE IF tokens[1] \in Keys
    THEN [node |-> Node(tokens[1]), args |-> Tail(tokens), err |-> NIL]
    ELSE One({
        IF m = {} THEN [node |-> NIL, args |-> <<>>, err |-> "ErrNotFound"]
        ELSE IF Cardinality(m) > 1
        THEN [node |-> NIL, args |-> <<>>, err |-> "ErrAmbiguous"]
        ELSE [node |-> Node(One(m)), args |-> Tail(tokens), err |-> NIL]
        : m \in {{k \in Keys : tokens[1] # "" /\ HasPrefix(k, tokens[1])}}})

\* The handler init stores in each command's Data, called by processCmd.
Dispatch(node, args, o) ==
    CASE node = "help" -> cmdHelp(node, args, o)
      [] node = "list" -> cmdListDomains(node, args, o)
      [] node = "ip4" -> cmdIP4(node, args, o)
      [] node = "ip6" -> cmdIP6(node, args, o)
      [] node = "cname" -> cmdCNAME(node, args, o)
      [] node = "txt" -> cmdTXT(node, args, o)
      [] node = "add" -> cmdAdd(node, args, o)
      [] node = "delete" -> cmdDelete(node, args, o)
      [] node = "zone" -> cmdSetZone(node, args, o)
      [] node = "quit" -> cmdQuit(node, args, o)

\* Variant of processCmd with the messages of its first two cases swapped.
processCmdSwapped(tokens, o) ==
    \E r \in {Lookup(tokens)} :
    IF r.err = "ErrNotFound"
    THEN Return("<notfound>", <<>>, o, Say(Begin, "Command ambiguous."), FALSE)
    ELSE IF r.err = "ErrAmbiguous"
    THEN Return("<ambiguous>", <<>>, o, Say(Begin, "Command not found."), FALSE)
    ELSE IF r.node = NIL THEN Return("<empty>", <<>>, o, Begin, FALSE)
    ELSE Dispatch(r.node, r.args, o)

processCmd(tokens, o) ==
    \E r \in {Lookup(tokens)} :
    IF r.err = "ErrNotFound"
    THEN Return("<notfound>", <<>>, o, Say(Begin, "Command not found."), FALSE)
    ELSE IF r.err = "ErrAmbiguous"
    THEN Return("<ambiguous>", <<>>, o, Say(Begin, "Command ambiguous."), FALSE)
    ELSE IF r.node = NIL THEN Return("<empty>", <<>>, o, Begin, FALSE)
    ELSE Dispatch(r.node, r.args, o)

\* The first tokens tried: every non-empty prefix of a name or shortcut,
\* and two tokens that match nothing.
Prefixes(k) == {SubSeq(k, 1, n) : n \in 1..Len(k)}
FirstTokens == UNION {Prefixes(k) : k \in Keys} \cup {"x", "ipx"}
LineArgs == {<<>>, <<"h1", "c1">>}
Lines == {<<>>} \cup {<<tok>> \o args : tok \in FirstTokens, args \in LineArgs}

LookupInputs == [cap |-> MaxSessionRecs]

\* runInteractive reads a line and processCmd processes it.
TypeLine ==
    /\ pc = "ready"
    /\ \E tokens \in Lines : \E o \in World(LookupInputs, FALSE, FALSE, FALSE, FALSE) :
         /\ line' = tokens
         /\ processCmd(tokens, o)

InitLookup ==
    /\ interactive = TRUE
    /\ env = [email |-> "env-email", key |-> "env-key", zone |-> "z1"]
    /\ remote = <<>>
    /\ Start
    /\ NoText

NextLookup == TypeLine

SpecLookup == InitLookup /\ [][NextLookup]_vars

---------------------------------------------------------------------------
(* Properties.  Each is stated on the log of the last command line (cmd,   *)
(* calls, out, asked, reads), on the session, and, for a property of one   *)
(* step, on the provider's records before (remote) and after (remote').    *)

Ops(cs, op) == SelectSeq(cs, LAMBDA c : c.op = op)
N(cs, op) == Len(Ops(cs, op))

RecordOps == {"ListDNSRecords", "CreateDNSRecord", "UpdateDNSRecord", "DeleteDNSRecord"}
Mutating == {"CreateDNSRecord", "UpdateDNSRecord", "DeleteDNSRecord"}

\* The line was a convenience command that passed its argument check.
IsConv(c) == c.name \in DOMAIN ConvType /\ Len(c.args) = 2

\* The listing of the line succeeded.
Listed(cs) == \E i \in DOMAIN cs : cs[i].op = "ListDNSRecords" /\ cs[i].ok

\* The line before this step was a convenience command on a type and name
\* the provider held no record of, and this step repeats it.
Twice == repeat = "first" /\ repeat' = "second"

DeleteReport(r, ok) ==
    IF ok THEN "Deleted " \o r.rtype \o " record " \o r.name \o "."
    ELSE "Error deleting " \o r.name

\* C2: when the listing of a delete returns N >= 1 records, the line makes
\* one delete call per listed record, in listing order, whatever the
\* outcome of the earlier ones, and prints one report per record: "Deleted"
\* for each call that succeeded and a failure message for each that did not.
C2_DeleteAll ==
    [][cmd'.name = "delete" /\ Listed(calls') =>
        LET l == Ops(calls', "ListDNSRecords")[1]
            recs == SelectSeq(remote, LAMBDA r : Matches(r, l.zone, cmd'.args[1], cmd'.args[2]))
            dels == Ops(calls', "DeleteDNSRecord")
        IN /\ l.n = Len(recs)
           /\ Len(dels) = Len(recs)
           /\ \A k \in DOMAIN recs : dels[k].id = recs[k].id /\ dels[k].zone = l.zone
           /\ recs # <<>> =>
                out' = [k \in DOMAIN recs |-> DeleteReport(recs[k], dels[k].ok)]
           /\ Len(SelectSeq(dels, LAMBDA d : d.ok)) = Len(remote) - Len(remote')]_vars

\* A delete whose first call failed and whose second call went through.
C2_Witness ==
    /\ cmd.name = "delete"
    /\ N(calls, "DeleteDNSRecord") >= 2
    /\ ~Ops(calls, "DeleteDNSRecord")[1].ok
    /\ Ops(calls, "DeleteDNSRecord")[2].ok
    /\ Len(out) = N(calls, "DeleteDNSRecord")

\* The number of arguments each command's usage line declares.
Arity ==
    [list |-> {0, 1}, ip4 |-> {2}, ip6 |-> {2}, cname |-> {2}, txt |-> {2},
     add |-> {3}, delete |-> {2}, zone |-> {1}]

\* C3, as the claim states it: a handler called with a number of arguments
\* its usage line does not declare prints the usage, makes no remote call
\* and leaves the session as it was.
C3_ArityChecked ==
    [][cmd'.name \in DOMAIN Arity /\ Len(cmd'.args) \notin Arity[cmd'.name] =>
        /\ out' = <<"Usage: " \o Usage[cmd'.name]>>
        /\ calls' = <<>>
        /\ activeAPI' = activeAPI
        /\ activeZoneIdentifier' = activeZoneIdentifier]_vars

\* The line reaches getAPI, and getZoneIdentifier.
NeedsAPI(c) ==
    \/ c.name = "zone" /\ Len(c.args) >= 1
    \/ c.name = "list"
    \/ IsConv(c)
    \/ c.name = "add" /\ Len(c.args) = 3
    \/ c.name = "delete" /\ Len(c.args) = 2
NeedsZone(c) == NeedsAPI(c) /\ c.name # "zone"

\* The first variable the line needs and the environment does not set.
Missing(c) ==
    IF NeedsAPI(c) /\ env.email = "" THEN "CLOUDFLARE_EMAIL"
    ELSE IF NeedsAPI(c) /\ env.key = "" THEN "CLOUDFLARE_KEY"
    ELSE IF NeedsZone(c) /\ env.zone = "" THEN "CLOUDFLARE_ZONE"
    ELSE ""

\* C4, as the claim states it: in a non-interactive run, a command that
\* needs a variable the environment does not set prints a message naming
\* it, never prompts, makes no remote call and caches nothing in the session.
C4_Original ==
    ~interactive /\ Missing(cmd) # "" =>
        /\ out = <<Missing(cmd) \o " not set.">>
        /\ asked = <<>>
        /\ calls = <<>>
        /\ activeAPI = NIL
        /\ activeZoneIdentifier = NIL

\* C4, amended: in a non-interactive run, a command that needs a variable
\* the environment does not set prints a message naming it, never prompts,
\* makes no remote call and caches no zone identifier; it caches no API
\* handle either unless the missing variable is CLOUDFLARE_ZONE, in which
\* case the handle built from the two credentials is cached.
C4_NoPrompt ==
    ~interactive /\ Missing(cmd) # "" =>
        /\ out = <<Missing(cmd) \o " not set.">>
        /\ asked = <<>>
        /\ calls = <<>>
        /\ activeAPI = IF Missing(cmd) = "CLOUDFLARE_ZONE"
                       THEN New(env.key, env.email) ELSE NIL
        /\ activeZoneIdentifier = NIL

\* A non-interactive run with both credentials and no zone.
C4_Witness ==
    /\ ~interactive
    /\ pc = "exit"
    /\ Missing(cmd) = "CLOUDFLARE_ZONE"
    /\ out = <<"CLOUDFLARE_ZONE not set.">>
    /\ activeAPI # NIL

Credentials == {"CLOUDFLARE_EMAIL", "CLOUDFLARE_KEY"}
CredentialPrompts == {"Enter cloudflare account email: ", "Enter cloudflare API key: "}

\* C5: in an interactive session, once the API handle exists no later line
\* replaces it, reads a credential variable or prompts for a credential.
C5_HandleOnce ==
    [][interactive /\ activeAPI # NIL =>
        /\ activeAPI' = activeAPI
        /\ reads' \cap Credentials = {}
        /\ \A i \in DOMAIN asked' : asked'[i] \notin CredentialPrompts]_vars

\* A line that used the handle built from typed credentials, without
\* reading or asking for them.
C5_Witness ==
    /\ interactive
    /\ activeAPI = New("typed-key", "typed-email")
    /\ cmd.name = "add"
    /\ N(calls, "CreateDNSRecord") = 1
    /\ reads \cap Credentials = {}
    /\ asked = <<>>

\* C6: after a successful zone command, the session's zone is the
\* identifier the provider gave for that name, and every record-level call
\* of every later line goes to it, until the next successful zone command.
C6_ZoneSticks ==
    zoneSet # NIL =>
        /\ activeZoneIdentifier = zoneSet
        /\ \A i \in DOMAIN calls : calls[i].op \in RecordOps => calls[i].zone = zoneSet

\* A record command sent to the zone a zone command chose, not the one in
\* the environment.
C6_Witness ==
    /\ zoneSet = "Z2"
    /\ env.zone = "z1"
    /\ cmd.name = "ip4"
    /\ N(calls, "ListDNSRecords") = 1
    /\ \A i \in DOMAIN calls : calls[i].zone = "Z2"

\* C7: an interactive session is over only after the input stream closed
\* or the quit command ran; after any other line the loop goes on.
C7_LoopEnds ==
    interactive =>
        /\ pc = "exit" => cmd.name \in {"<eof>", "quit"}
        /\ cmd.name \notin {"<eof>", "quit"} => pc = "ready"

\* The loop goes on after a delete call failed.
C7_Witness ==
    /\ interactive
    /\ pc = "ready"
    /\ cmd.name = "delete"
    /\ \E i \in DOMAIN calls : calls[i].op = "DeleteDNSRecord" /\ ~calls[i].ok

\* C8, as the claim states it: a remote call that fails, other than one
\* record's delete, is the last call of its line, and the line prints the
\* error.
C8_AbortOnError ==
    \A i \in DOMAIN calls :
        ~calls[i].ok /\ calls[i].op # "DeleteDNSRecord" =>
            /\ i = Len(calls)
            /\ out # <<>> /\ out[Len(out)] = "Error"

\* C9: after a successful listing, a convenience command makes exactly one
\* create call (TTL 1) and no update when nothing matched; exactly one
\* update call on the first match's identifier, with that record's type
\* and TTL, and no create when the first match's content differs; no
\* mutating call when it is equal.  Every record other than the first match
\* is left as it was.
C9_Upsert ==
    [][IsConv(cmd') /\ Listed(calls') =>
        LET l == Ops(calls', "ListDNSRecords")[1]
            recs == SelectSeq(remote, LAMBDA r :
                        Matches(r, l.zone, ConvType[cmd'.name], cmd'.args[1]))
            muts == SelectSeq(calls', LAMBDA c : c.op \in Mutating)
        IN /\ l.n = Len(recs)
           /\ IF recs = <<>>
              THEN /\ Len(muts) = 1
                   /\ muts[1].op = "CreateDNSRecord"
                   /\ muts[1].zone = l.zone
                   /\ muts[1].rtype = ConvType[cmd'.name]
                   /\ muts[1].name = cmd'.args[1]
                   /\ muts[1].content = cmd'.args[2]
                   /\ muts[1].ttl = 1
              ELSE IF recs[1].content # cmd'.args[2]
              THEN /\ Len(muts) = 1
                   /\ muts[1].op = "UpdateDNSRecord"
                   /\ muts[1].zone = l.zone
                   /\ muts[1].id = recs[1].id
                   /\ muts[1].rtype = recs[1].rtype
                   /\ muts[1].ttl = recs[1].ttl
                   /\ muts[1].content = cmd'.args[2]
              ELSE muts = <<>>
           /\ \A k \in DOMAIN remote :
                recs = <<>> \/ remote[k].id # recs[1].id => remote'[k] = remote[k]]_vars

\* Two records matched; the first was updated, with its TTL, and the other
\* kept its content.
C9_Witness ==
    /\ IsConv(cmd)
    /\ Len(calls) = 2
    /\ calls[1].op = "ListDNSRecords" /\ calls[1].n = 2
    /\ calls[2].op = "UpdateDNSRecord" /\ calls[2].ok /\ calls[2].ttl = 300
    /\ \E k \in DOMAIN remote :
         /\ remote[k].id # calls[2].id
         /\ remote[k].name = cmd.args[1]
         /\ remote[k].content # cmd.args[2]

\* C10: add with three arguments, the API handle and the zone available,
\* makes exactly one record-level call: a create with the type, name and
\* content given, TTL 1 and proxying off.  It never lists, updates or
\* deletes.
C10_AddCreates ==
    cmd.name = "add" /\ Len(cmd.args) = 3 /\ activeAPI # NIL /\ activeZoneIdentifier # NIL =>
        LET rcs == SelectSeq(calls, LAMBDA c : c.op \in RecordOps)
        IN /\ Len(rcs) = 1
           /\ rcs[1].op = "CreateDNSRecord"
           /\ rcs[1].zone = activeZoneIdentifier
           /\ rcs[1].rtype = cmd.args[1]
           /\ rcs[1].name = cmd.args[2]
           /\ rcs[1].content = cmd.args[3]
           /\ rcs[1].ttl = 1
           /\ ~rcs[1].proxied

\* An add that created a second record of a type and name already there.
C10_Witness ==
    /\ cmd.name = "add"
    /\ calls # <<>> /\ calls[Len(calls)].op = "CreateDNSRecord" /\ calls[Len(calls)].ok
    /\ Cardinality({k \in DOMAIN remote :
                      remote[k].rtype = cmd.args[1] /\ remote[k].name = cmd.args[2]}) >= 2

\* C15: no remote call is retried within one line.  Any line makes at most
\* one zone lookup and at most one listing; a convenience command makes at
\* most one create-or-update call; add makes at most one create call; delete
\* makes one delete call per listed record, no two of them for the same
\* record, also when a delete failed.
C15_NoRetry ==
    /\ N(calls, "ZoneIDByName") <= 1
    /\ N(calls, "ListDNSRecords") <= 1
    /\ N(calls, "CreateDNSRecord") + N(calls, "UpdateDNSRecord") <= 1
    /\ cmd.name \in {"zone", "list"} =>
         \A i \in DOMAIN calls : calls[i].op \notin Mutating
    /\ cmd.name = "add" =>
         \A i \in DOMAIN calls : calls[i].op \in {"ZoneIDByName", "CreateDNSRecord"}
    /\ cmd.name # "delete" => N(calls, "DeleteDNSRecord") = 0
    /\ cmd.name = "delete" /\ Listed(calls) =>
         LET dels == Ops(calls, "DeleteDNSRecord")
         IN /\ Len(dels) = Ops(calls, "ListDNSRecords")[1].n
            /\ \A j, k \in DOMAIN dels : dels[j].id = dels[k].id => j = k

\* A delete call failed and the line went on without trying it again.
C15_Witness ==
    /\ cmd.name = "delete"
    /\ N(calls, "DeleteDNSRecord") = 1
    /\ ~calls[Len(calls)].ok
    /\ out = <<"Error deleting " \o cmd.args[2]>>

\* C16: a line that made a record-level call has the API handle and the
\* zone identifier set, and made the call on that zone; a line that ends
\* without one of them made no record-level call.
C16_SessionBeforeCall ==
    /\ (\E i \in DOMAIN calls : calls[i].op \in RecordOps) =>
         /\ activeAPI # NIL
         /\ activeZoneIdentifier # NIL
         /\ \A i \in DOMAIN calls :
              calls[i].op \in RecordOps => calls[i].zone = activeZoneIdentifier
    /\ activeAPI = NIL \/ activeZoneIdentifier = NIL =>
         \A i \in DOMAIN calls : calls[i].op \notin RecordOps

\* A record command that had the handle but could not resolve the zone.
C16_Witness ==
    /\ NeedsZone(cmd)
    /\ activeAPI # NIL
    /\ activeZoneIdentifier = NIL
    /\ Len(calls) = 1
    /\ calls[1].op = "ZoneIDByName"
    /\ ~calls[1].ok

\* This step tried to resolve a zone, by the zone command or lazily, and
\* did not get an identifier from the provider.
FailedResolution ==
    /\ \/ cmd'.name = "zone" /\ Len(cmd'.args) >= 1
       \/ NeedsZone(cmd') /\ activeZoneIdentifier = NIL
    /\ \A i \in DOMAIN calls' : ~(calls'[i].op = "ZoneIDByName" /\ calls'[i].ok)

\* C17, as the claim states it: a failed zone resolution leaves the zone
\* identifier and the API handle exactly as they were.
C17_Original ==
    [][FailedResolution =>
        /\ activeZoneIdentifier' = activeZoneIdentifier
        /\ activeAPI' = activeAPI]_vars

\* C17, amended: a failed zone resolution leaves the zone identifier
\* exactly as it was and leaves a cached API handle as it was; when no
\* handle was cached, the handle built for the attempt (if the credentials
\* gave one) stays cached.
C17_FailedZoneKeeps ==
    [][FailedResolution =>
        /\ activeZoneIdentifier' = activeZoneIdentifier
        /\ activeAPI # NIL => activeAPI' = activeAPI
        /\ activeAPI = NIL =>
             \/ activeAPI' = NIL
             \/ /\ activeAPI' \in {New(k, e) : k \in {env.key} \cup KeyTyped,
                                              e \in {env.email} \cup EmailTyped}
                /\ reads' \cap Credentials = Credentials]_vars

\* A zone command failed at the provider and the zone chosen before is
\* still the active one.
C17_Witness ==
    /\ cmd.name = "zone"
    /\ Len(calls) = 1
    /\ ~calls[1].ok
    /\ out = <<"Error">>
    /\ zoneSet = "Z2"
    /\ activeZoneIdentifier = "Z2"

\* The lines of a text: the pieces between its newlines.
NewLines(s) == {i \in 1..Len(s) : At(s, i) = "\n"}
LineCount(s) == IF s = "" THEN 0 ELSE Cardinality(NewLines(s)) + 1
LineAt(s, k) ==
    LET nl == NewLines(s)
        from == IF k = 1 THEN 1
                ELSE 1 + CHOOSE i \in nl : Cardinality({j \in nl : j < i}) = k - 2
        to == IF k = Cardinality(nl) + 1 THEN Len(s)
              ELSE (CHOOSE i \in nl : Cardinality({j \in nl : j < i}) = k - 1) - 1
    IN SubSeq(s, from, to)

\* The number of spaces a line starts with.
Indent(l) == CHOOSE n \in 0..Len(l) : l = RepeatStr(" ", n) \o SubSeq(l, n + 1, Len(l))
                                      /\ (n = Len(l) \/ At(l, n + 1) # " ")

\* The wrapped text is two lines with the same indent, the words in order.
TwoLines ==
    /\ LineCount(wrapped) = 2
    /\ Indent(LineAt(wrapped, 1)) = Indent(LineAt(wrapped, 2))
    /\ Fields(wrapped) = Fields(desc)

\* C14, as the claim states it: a description of exactly 85 characters with
\* no word longer than 80 wraps into exactly two lines, the second indented
\* like the first, the words in their original order.
C14_Original ==
    wrapped # NIL /\ Len(desc) = 85
    /\ (\A k \in DOMAIN Fields(desc) : Len(Fields(desc)[k]) <= 80)
        => TwoLines

\* C14, amended: a description of exactly 85 characters whose words are
\* separated by single spaces, with no space before the first or after the
\* last, and with no word longer than 68 characters, wraps into exactly two
\* lines, the second indented like the first (3 spaces), the words in their
\* original order.
C14_WrapTwoLines ==
    wrapped # NIL /\ Len(desc) = 85
    /\ desc = Join(Fields(desc), " ")
    /\ (\A k \in DOMAIN Fields(desc) : Len(Fields(desc)[k]) <= 68)
        => TwoLines /\ Indent(LineAt(wrapped, 1)) = 3

\* A description with a word of 68 characters between two short ones,
\* wrapped into two lines.
C14_Witness ==
    /\ wrapped # NIL
    /\ desc = Join(Fields(desc), " ")
    /\ Len(Fields(desc)) = 3
    /\ Len(Fields(desc)[2]) = 68
    /\ Len(Fields(desc)[1]) = 7
    /\ LineCount(wrapped) = 2

\* C13, as the claim states it: the tokens read from fixupArgs(argv) are
\* exactly the arguments of the process.
C13_RoundTrip ==
    parsed.done => ~parsed.err /\ parsed.tokens = argv

\* The registered names and shortcuts, as the claims list them.
ClaimNames == {"help", "list", "ip4", "ip6", "cname", "txt", "add", "delete", "zone", "quit"}
ClaimShortcuts == ("?" :> "help") @@ ("l" :> "list") @@ ("ip" :> "ip4")
ClaimKeys == ClaimNames \cup DOMAIN ClaimShortcuts

\* The names and shortcuts the token is a prefix of.
Extends(t) == {k \in ClaimKeys : t # "" /\ HasPrefix(k, t)}

\* The token is an exact name or shortcut, or a prefix of exactly one.
Resolves(t) == t \in ClaimKeys \/ Cardinality(Extends(t)) = 1

\* The full command name the token stands for.
FullName(t) ==
    LET k == IF t \in ClaimKeys THEN t ELSE One(Extends(t))
    IN IF k \in ClaimNames THEN k ELSE ClaimShortcuts[k]

\* C11: a line whose first token is an exact name or shortcut, or a
\* non-empty prefix of exactly one name or shortcut, reaches the handler,
\* with the arguments, that the line with the full command name in its
\* place reaches: the command of that name, with the tokens after the first.
C11_PrefixDispatch ==
    line # <<>> /\ Resolves(line[1]) =>
        LET full == Lookup(<<FullName(line[1])>> \o Tail(line))
        IN /\ full.err = NIL
           /\ full.node = FullName(line[1])
           /\ cmd = [name |-> full.node, args |-> full.args]
           /\ cmd.args = Tail(line)

\* The shortcut ip and a proper prefix of a name, each with arguments.
C11_Witness ==
    /\ line = <<"ip", "h1", "c1">>
    /\ cmd = [name |-> "ip4", args |-> <<"h1", "c1">>]
    /\ N(calls, "ListDNSRecords") = 1

\* The token is a prefix of two or more command names.
Shared(t) == Cardinality({k \in ClaimNames : t # "" /\ HasPrefix(k, t)}) >= 2

\* The step printed the ambiguity message and did nothing else.
OnlyAmbiguous ==
    /\ cmd'.name = "<ambiguous>"
    /\ out' = <<"Command ambiguous.">>
    /\ calls' = <<>>
    /\ asked' = <<>>
    /\ activeAPI' = activeAPI
    /\ activeZoneIdentifier' = activeZoneIdentifier
    /\ remote' = remote
    /\ pc' = pc

\* C12, as the claim states it: a line whose first token is a prefix of two
\* or more command names gets the ambiguity message, no handler, no remote
\* call and no change of the session.
C12_Original ==
    [][line' # <<>> /\ Shared(line'[1]) => OnlyAmbiguous]_vars

\* C12, amended: a line whose first token is a prefix of two or more
\* command names, and is not itself an exact name or shortcut, gets the
\* ambiguity message, no handler, no remote call and no change of the
\* session.
C12_Ambiguous ==
    [][line' # <<>> /\ Shared(line'[1]) /\ line'[1] \notin ClaimKeys => OnlyAmbiguous]_vars

\* The ambiguous token i, typed in a session that has a handle and a zone.
C12_Witness ==
    /\ line = <<"i", "h1", "c1">>
    /\ cmd.name = "<ambiguous>"
    /\ out = <<"Command ambiguous.">>
    /\ activeAPI # NIL
    /\ activeZoneIdentifier # NIL
    /\ calls = <<>>

====
